---- MODULE Spec2Model ----
(***************************************************************************)
(* A model of wx.py, the WeatherAPI client for the Personal Weather        *)
(* Station API: the client's parameter mapping, the response transform,    *)
(* the single-day history endpoints and the two backward-walking range     *)
(* generators.                                                             *)
(***************************************************************************)
EXTENDS Integers, Sequences, FiniteSets, TLC

VARIABLES
    params,     \* self._params, the client's parameter mapping (a dict)
    params0,    \* history: the value of self._params when __init__ returned
    gen,        \* gen[g]: the frame of range generator g (its locals and position)
    log,        \* history: log[g], the fetches generator g made, with their results
    yielded,    \* history: yielded[g], the records generator g has yielded, in order
    rec,        \* the record handed to _transform, as it was before the call
    out1,       \* _transform(rec)
    out2,       \* _transform(_transform(rec))
    tpc         \* the applications of _transform made so far: "init", "once",
                \* "twice", or "raised" when one raised ("off" when none is under way)

vars == <<params, params0, gen, log, yielded, rec, out1, out2, tpc>>

----------------------------------------------------------------------------
(* Bounds of the model *)

\* the number of calendar days the server has history for, ending at LastDay
NumDays == 5
\* the largest number of hourly records the server returns for one day
HoursPerDay == 2

----------------------------------------------------------------------------
(* Python values *)

\* Python's None
None == "None"

\* values of a decoded JSON record, tagged by their Python type
StrV(s) == <<"str", s>>
IntV(n) == <<"int", n>>
MapV(f) == <<"map", f>>
IsMap(v) == v[1] = "map"

\* the empty dict {}
EmptyDict == <<>>

\* d1 | d2, and d1.update(d2): the entries of d2 win
DictMerge(d1, d2) ==
    [k \in DOMAIN d1 \cup DOMAIN d2 |-> IF k \in DOMAIN d2 THEN d2[k] ELSE d1[k]]

\* d[key] = value
DictSet(d, key, value) ==
    [k \in DOMAIN d \cup {key} |-> IF k = key THEN value ELSE d[k]]

\* del d[key]
DictDel(d, key) == [k \in DOMAIN d \ {key} |-> d[k]]

\* reversed(s)
Reversed(s) == [i \in 1..Len(s) |-> s[Len(s) + 1 - i]]

----------------------------------------------------------------------------
(* datetime.date: a date object is <<"date", y, m, d>>, a str is <<"str", s>> *)

DateObj(y, m, d) == <<"date", y, m, d>>
DateStr(s) == <<"str", s>>

IsLeap(y) == (y % 4 = 0) /\ ((y % 100 # 0) \/ (y % 400 = 0))

DaysInMonth(y, m) ==
    IF m = 2 THEN (IF IsLeap(y) THEN 29 ELSE 28)
    ELSE IF m \in {4, 6, 9, 11} THEN 30 ELSE 31

\* an exception raised where a value was expected
Raise(exc) == <<"raise", exc>>
IsRaise(v) == v[1] = "raise"

\* date - datetime.timedelta(days=1): the day before date.min (0001-01-01) is out
\* of range, OverflowError
PrevDay(dt) ==
    LET y == dt[2]  m == dt[3]  d == dt[4]
    IN  IF d > 1 THEN DateObj(y, m, d - 1)
        ELSE IF m > 1 THEN DateObj(y, m - 1, DaysInMonth(y, m - 1))
        ELSE IF y > 1 THEN DateObj(y - 1, 12, 31)
        ELSE Raise("OverflowError")

\* a < b on dates
DateLt(a, b) ==
    \/ a[2] < b[2]
    \/ a[2] = b[2] /\ a[3] < b[3]
    \/ a[2] = b[2] /\ a[3] = b[3] /\ a[4] < b[4]

\* a >= b on dates
DateGe(a, b) == ~DateLt(a, b)

Digits == <<"0", "1", "2", "3", "4", "5", "6", "7", "8", "9">>

\* n as a decimal string zero-padded to w digits
RECURSIVE Pad(_, _)
Pad(n, w) == IF w = 0 THEN "" ELSE Pad(n \div 10, w - 1) \o Digits[(n % 10) + 1]

\* n as a decimal string without padding
RECURSIVE Dec(_)
Dec(n) == IF n < 10 THEN Digits[n + 1] ELSE Dec(n \div 10) \o Digits[(n % 10) + 1]

\* date.strftime("%Y%m%d"): the C library's %Y writes the year without padding
\* (a year below 1000 has fewer than four digits), %m and %d write two digits
Strftime(dt) == Dec(dt[2]) \o Pad(dt[3], 2) \o Pad(dt[4], 2)

\* s.replace("-", "")
RECURSIVE StripDashes(_)
StripDashes(s) ==
    IF Len(s) = 0 THEN ""
    ELSE LET c == SubSeq(s, 1, 1)
         IN  (IF c = "-" THEN "" ELSE c) \o StripDashes(SubSeq(s, 2, Len(s)))

\* int(s) for a string of decimal digits
RECURSIVE ParseInt(_)
ParseInt(s) ==
    IF Len(s) = 0 THEN 0
    ELSE LET c == SubSeq(s, Len(s), Len(s))
             v == CHOOSE n \in 0..9 : Digits[n + 1] = c
         IN  10 * ParseInt(SubSeq(s, 1, Len(s) - 1)) + v

\* the character of s at position i, "" past its end
Ch(s, i) == IF i >= 1 /\ i <= Len(s) THEN SubSeq(s, i, i) ELSE ""

\* [0-9] and [1-9]
IsDigit(c) == \E n \in 0..9 : Digits[n + 1] = c
NonZero(c) == \E n \in 1..9 : Digits[n + 1] = c

\* the pattern of %m, 1[0-2]|0[1-9]|[1-9]: the length its k-th alternative matches
\* at position p of s, 0 when it does not match
MonthAlt(s, p, k) ==
    IF k = 1 THEN (IF Ch(s, p) = "1" /\ Ch(s, p + 1) \in {"0", "1", "2"} THEN 2 ELSE 0)
    ELSE IF k = 2 THEN (IF Ch(s, p) = "0" /\ NonZero(Ch(s, p + 1)) THEN 2 ELSE 0)
    ELSE (IF NonZero(Ch(s, p)) THEN 1 ELSE 0)

\* the pattern of %d, 3[0-1]|[1-2]\d|0[1-9]|[1-9]| [1-9], likewise
DayAlt(s, p, k) ==
    IF k = 1 THEN (IF Ch(s, p) = "3" /\ Ch(s, p + 1) \in {"0", "1"} THEN 2 ELSE 0)
    ELSE IF k = 2 THEN (IF Ch(s, p) \in {"1", "2"} /\ IsDigit(Ch(s, p + 1)) THEN 2 ELSE 0)
    ELSE IF k = 3 THEN (IF Ch(s, p) = "0" /\ NonZero(Ch(s, p + 1)) THEN 2 ELSE 0)
    ELSE IF k = 4 THEN (IF NonZero(Ch(s, p)) THEN 1 ELSE 0)
    ELSE (IF Ch(s, p) = " " /\ NonZero(Ch(s, p + 1)) THEN 2 ELSE 0)

\* datetime.datetime.strptime(s, "%Y%m%d") for ASCII text.  The format is matched
\* as the pattern \d\d\d\d, %m, %d from the start of s, the alternatives tried in
\* order with backtracking; text left over after the match, a year 0 and a day
\* the month does not have raise ValueError, as does text that does not match.
Strptime(s) ==
    LET fits == {f \in (1..3) \X (1..5) :
                    /\ MonthAlt(s, 5, f[1]) > 0
                    /\ DayAlt(s, 5 + MonthAlt(s, 5, f[1]), f[2]) > 0}
    IN  IF (\E i \in 1..4 : ~IsDigit(Ch(s, i))) \/ fits = {}
        THEN Raise("ValueError")
        ELSE LET f  == CHOOSE f \in fits :
                          \A g \in fits : f[1] < g[1] \/ (f[1] = g[1] /\ f[2] <= g[2])
                 ml == MonthAlt(s, 5, f[1])
                 dl == DayAlt(s, 5 + ml, f[2])
                 y  == ParseInt(SubSeq(s, 1, 4))
                 m  == ParseInt(SubSeq(s, 5, 4 + ml))
                 d  == ParseInt(SubSeq(s, 5 + ml + (IF f[2] = 5 THEN 1 ELSE 0), 4 + ml + dl))
             IN  IF 4 + ml + dl # Len(s) \/ y < 1 \/ d > DaysInMonth(y, m)
                 THEN Raise("ValueError")
                 ELSE DateObj(y, m, d)

\* the first two statements of history_daily / history_hourly: a str date is
\* parsed, which may raise; any other value is left as it is
CoerceDate(date) ==
    IF date[1] = "str" THEN Strptime(StripDashes(date[2])) ELSE date

\* bool(x) for a str-or-None argument: None and "" are falsy
Truthy(x) == x # None /\ x # ""

\* x or y
Or(x, y) == IF Truthy(x) THEN x ELSE y

----------------------------------------------------------------------------
(* WeatherAPI.__init__ *)

\* os.environ: this process's WX_API_KEY and WX_STATION
Environ == [WX_API_KEY |-> "ENVKEY", WX_STATION |-> "S0"]

\* self._params as __init__ builds it
Construct(api_key, station, units) ==
    [apiKey           |-> Or(api_key, Environ.WX_API_KEY),
     stationId        |-> Or(station, Environ.WX_STATION),
     units            |-> units,
     format           |-> "json",
     numericPrecision |-> "decimal"]

\* the constructor calls explored: (api_key, station, units)
CtorArgs == {<<"KEY", "S0", "e">>, <<None, None, "m">>, <<"KEY", None, "h">>}

----------------------------------------------------------------------------
(* WeatherAPI._transform *)

ReservedKeys == <<"imperial", "metric", "uk_hybrid">>

\* the attr the for loop stops at: the first reserved key the record holds, or None
MatchedAttr(record) ==
    IF \E i \in 1..Len(ReservedKeys) : ReservedKeys[i] \in DOMAIN record
    THEN ReservedKeys[CHOOSE i \in 1..Len(ReservedKeys) :
                         /\ ReservedKeys[i] \in DOMAIN record
                         /\ \A j \in 1..(i - 1) : ReservedKeys[j] \notin DOMAIN record]
    ELSE None

\* what record.update(v) merges in, or the exception it raises.  A mapping gives its
\* entries.  A str is iterated by character: "" gives nothing, and any other str
\* raises ValueError (a character is no key/value pair).  An int is not iterable:
\* TypeError.
UpdateArg(v) ==
    IF IsMap(v) THEN [exc |-> None, entries |-> v[2]]
    ELSE IF v[1] = "str"
    THEN [exc |-> (IF v[2] = "" THEN None ELSE "ValueError"), entries |-> EmptyDict]
    ELSE [exc |-> "TypeError", entries |-> EmptyDict]

\* _transform with the merge turned around: the top-level entries win
TransformTopWins(record) ==
    LET attr == MatchedAttr(record)
    IN  IF attr = None THEN [exc |-> None, value |-> record]
        ELSE LET u == UpdateArg(record[attr])
             IN  IF u.exc # None THEN [exc |-> u.exc, value |-> record]
                 ELSE [exc |-> None, value |-> DictDel(DictMerge(u.entries, record), attr)]

\* _transform without "del record[attr]"
TransformKeepsKey(record) ==
    LET attr == MatchedAttr(record)
    IN  IF attr = None THEN [exc |-> None, value |-> record]
        ELSE LET u == UpdateArg(record[attr])
             IN  IF u.exc # None THEN [exc |-> u.exc, value |-> record]
                 ELSE [exc |-> None, value |-> DictMerge(record, u.entries)]

\* _transform(record): exc is the exception raised (None when it returns), value the
\* record as the call leaves it.  update raises before it merges anything, so a
\* record whose update raised is unchanged and keeps its key.
Transform(record) ==
    LET attr == MatchedAttr(record)
    IN  IF attr = None THEN [exc |-> None, value |-> record]
        ELSE LET u == UpdateArg(record[attr])
             IN  IF u.exc # None THEN [exc |-> u.exc, value |-> record]
                 ELSE [exc |-> None, value |-> DictDel(DictMerge(record, u.entries), attr)]

\* [self._transform(o) for o in observations]
RECURSIVE TransformAll(_)
TransformAll(observations) ==
    IF Len(observations) = 0 THEN [exc |-> None, value |-> <<>>]
    ELSE LET h == Transform(Head(observations))
             t == TransformAll(Tail(observations))
         IN  IF h.exc # None THEN [exc |-> h.exc, value |-> <<>>]
             ELSE IF t.exc # None THEN t
             ELSE [exc |-> None, value |-> <<h.value>> \o t.value]

----------------------------------------------------------------------------
(* The transport and the server behind it (requests.get, raise_for_status, json) *)

\* the most recent day the server has history for
LastDay == DateObj(2024, 1, 3)

\* the day n days before LastDay
RECURSIVE DayBack(_)
DayBack(n) == IF n = 0 THEN LastDay ELSE PrevDay(DayBack(n - 1))

\* the days the server has history for
Days == {DayBack(n) : n \in 0..(NumDays - 1)}

\* datetime.date.today() at the time of the calls
Today == DayBack(2)

\* the nested key the server uses for the request's units code
UnitKey(units) ==
    IF units = "e" THEN "imperial" ELSE IF units = "m" THEN "metric" ELSE "uk_hybrid"

\* the i-th record the server returns for a request with parameters p: it carries
\* the station and the date asked for, and one nested unit-system object
RawRecord(p, i) ==
    ("stationID" :> StrV(p.stationId))
    @@ ("obsTimeUtc" :> StrV((IF "date" \in DOMAIN p THEN p.date ELSE "now") \o "T" \o Pad(i, 2)))
    @@ (UnitKey(p.units) :> MapV([temp |-> IntV(70 + i)]))

\* the n records of one response
RawList(p, n) == [i \in 1..n |-> RawRecord(p, i)]

HttpError == [status |-> "error", observations |-> <<>>]
Ok(observations) == [status |-> "ok", observations |-> observations]

\* the date a request asks for lies within the server's history
InHistory(p) == \E d \in Days : Strftime(d) = p.date

\* what /pws/history/daily may answer to a request with parameters p
DailyResponses(p) ==
    {HttpError, Ok(<<>>)}
    \cup (IF InHistory(p) THEN {Ok(<<EmptyDict>>), Ok(RawList(p, 1))} ELSE {})

\* what /pws/history/hourly may answer to a request with parameters p
HourlyResponses(p) ==
    {HttpError, Ok(<<>>)}
    \cup (IF InHistory(p) THEN {Ok(RawList(p, 1)), Ok(RawList(p, HoursPerDay))} ELSE {})

\* what the endpoints that take no date may answer
ListResponses(p) == {HttpError, Ok(<<>>), Ok(RawList(p, 1)), Ok(RawList(p, HoursPerDay))}

----------------------------------------------------------------------------
(* Request building and the single-shot endpoints *)

\* params = self._params | {"stationId": station} if station else self._params
\* parses as (self._params | {...}) if station else self._params
BuildParams(selfParams, station) ==
    IF Truthy(station) THEN DictMerge(selfParams, [stationId |-> station]) ELSE selfParams

\* an override written into self._params itself (|= in place of |)
IsAliasAlways(station) == TRUE

\* whether the name params is bound to the object self._params itself
IsAlias(station) == ~Truthy(station)

\* params["date"] = date.strftime("%Y%m%d"), on the mapping BuildParams returned;
\* date is the date object CoerceDate left
DatedParams(selfParams, date, station) ==
    DictSet(BuildParams(selfParams, station), "date", Strftime(date))

\* self._params after that assignment: it is the same object when params aliases it
ParamsAfterDated(selfParams, date, station) ==
    IF IsAlias(station) THEN DatedParams(selfParams, date, station) ELSE selfParams

\* history_daily from the response on: None is <<>>, a record r is <<r>>
DailyResult(response) ==
    IF response.status # "ok" THEN [exc |-> "HTTPError", value |-> <<>>]
    ELSE IF Len(response.observations) = 0 THEN [exc |-> None, value |-> <<>>]
    ELSE LET t == Transform(response.observations[1])
         IN  IF t.exc # None THEN [exc |-> t.exc, value |-> <<>>]
             ELSE [exc |-> None, value |-> <<t.value>>]

\* history_hourly, and the list endpoints, from the response on
ListResult(response) ==
    IF response.status # "ok" THEN [exc |-> "HTTPError", value |-> <<>>]
    ELSE TransformAll(response.observations)

\* current from the response on: observations[0] of an empty list raises IndexError
CurrentResult(response) ==
    IF response.status # "ok" THEN [exc |-> "HTTPError", value |-> <<>>]
    ELSE IF Len(response.observations) = 0 THEN [exc |-> "IndexError", value |-> <<>>]
    ELSE DailyResult(response)

----------------------------------------------------------------------------
(* Direct calls of the endpoints *)

\* the station argument of a call: omitted, or an override
Stations == {None, "S1"}

\* the date argument of a direct history call: a date object, an ISO string, and
\* a string that names no date
DateArgs == {DayBack(3), DateStr("2024-01-02"), DateStr("2024-13-01")}

\* what /pws/observations/current may answer
OneResponses(p) == {HttpError, Ok(<<>>), Ok(RawList(p, 1))}

\* what a call may end with: a return (None) or one of these exceptions
Outcomes == {None, "HTTPError", "IndexError", "TypeError", "ValueError"}

\* The four endpoints without a date send params and write nothing: params is a new
\* mapping (station given) or self._params itself, which is only read.  What the
\* call returns or raises is its result; the client keeps nothing of it.
current(station) ==
    LET p == BuildParams(params, station)
    IN  \E response \in OneResponses(p) :
            /\ CurrentResult(response).exc \in Outcomes
            /\ UNCHANGED vars

dailysummary(station) ==
    LET p == BuildParams(params, station)
    IN  \E response \in ListResponses(p) :
            /\ ListResult(response).exc \in Outcomes
            /\ UNCHANGED vars

observations_1day_highres(station) ==
    LET p == BuildParams(params, station)
    IN  \E response \in ListResponses(p) :
            /\ ListResult(response).exc \in Outcomes
            /\ UNCHANGED vars

observations_7day_hourly(station) ==
    LET p == BuildParams(params, station)
    IN  \E response \in ListResponses(p) :
            /\ ListResult(response).exc \in Outcomes
            /\ UNCHANGED vars

\* The two single-day history endpoints assign params["date"] before the GET: when
\* no station is given, params is self._params itself and the assignment lands there.
\* A str date that does not parse raises ValueError before params is bound: nothing
\* is written and nothing is sent.
history_daily(date, station) ==
    LET d == CoerceDate(date)
    IN  IF IsRaise(d)
        THEN d[2] \in Outcomes /\ UNCHANGED vars
        ELSE LET p == DatedParams(params, d, station)
             IN  \E response \in DailyResponses(p) :
                    /\ DailyResult(response).exc \in Outcomes
                    /\ params' = ParamsAfterDated(params, d, station)
                    /\ UNCHANGED <<params0, gen, log, yielded, rec, out1, out2, tpc>>

history_hourly(date, station) ==
    LET d == CoerceDate(date)
    IN  IF IsRaise(d)
        THEN d[2] \in Outcomes /\ UNCHANGED vars
        ELSE LET p == DatedParams(params, d, station)
             IN  \E response \in HourlyResponses(p) :
                    /\ ListResult(response).exc \in Outcomes
                    /\ params' = ParamsAfterDated(params, d, station)
                    /\ UNCHANGED <<params0, gen, log, yielded, rec, out1, out2, tpc>>

----------------------------------------------------------------------------
(* The range generators history_daily_range and history_hourly_range *)

\* None where a date is expected
NoneDate == <<"None">>

\* a generator that was not created yet.  pc is the generator's position: "none",
\* "created" (no next() yet), "suspended" (at a yield), "done" (returned) or
\* "raised" (ended by the exception exc); argStart and argEnd keep the arguments
\* of the call, which the body's start and end may swap.
IdleFrame ==
    [pc |-> "none", kind |-> "daily", start |-> NoneDate, end |-> NoneDate,
     station |-> None, current |-> NoneDate, pending |-> <<>>, exc |-> None,
     argStart |-> NoneDate, argEnd |-> NoneDate]

\* the frame of a generator just created by a call kind(start, end, station): a
\* generator function runs none of its body before the first next()
NewFrame(kind, start, end, station) ==
    [pc |-> "created", kind |-> kind, start |-> start, end |-> end,
     station |-> station, current |-> NoneDate, pending |-> <<>>, exc |-> None,
     argStart |-> start, argEnd |-> end]

\* the statements before the loop without the swap
EnterFrameNoSwap(f) ==
    IF f.start = NoneDate
    THEN [f EXCEPT !.pc = "running", !.start = Today, !.current = Today]
    ELSE IF f.end = NoneDate
    THEN [f EXCEPT !.pc = "raised", !.exc = "TypeError"]
    ELSE [f EXCEPT !.pc = "running", !.current = f.start]

\* the statements before the loop: the default of start, or the swap.  A date is
\* always truthy, so "not start" is "start is None"; start < None raises TypeError.
EnterFrame(f) ==
    IF f.start = NoneDate
    THEN [f EXCEPT !.pc = "running", !.start = Today, !.current = Today]
    ELSE IF f.end = NoneDate
    THEN [f EXCEPT !.pc = "raised", !.exc = "TypeError"]
    ELSE IF DateLt(f.start, f.end)
    THEN [f EXCEPT !.pc = "running", !.start = f.end, !.end = f.start, !.current = f.end]
    ELSE [f EXCEPT !.pc = "running", !.current = f.start]

\* the loop test with an exclusive end: end is None or current > end
LoopTestExclusive(f) == f.end = NoneDate \/ DateLt(f.end, f.current)

\* the loop test: end is None or current >= end
LoopTest(f) == f.end = NoneDate \/ DateGe(f.current, f.end)

\* a test "result is None" in place of "not result"
IsFalsyNoneOnly(kind, value) == Len(value) = 0

\* "not result" for what history_daily returned, "not results" for history_hourly
IsFalsy(kind, value) ==
    IF kind = "daily"
    THEN Len(value) = 0 \/ DOMAIN value[1] = {}
    ELSE Len(value) = 0

\* yield from results, without reversed()
YieldOrderForward(kind, value) == value

\* the order in which one fetched result is yielded
YieldOrder(kind, value) == IF kind = "daily" THEN value ELSE Reversed(value)

\* one pass from the loop test to the next yield, return or exception, for a
\* generator whose frame f stands at the loop test
Iterate(g, f) ==
    IF ~LoopTest(f)
    THEN /\ gen' = [gen EXCEPT ![g] = [f EXCEPT !.pc = "done"]]
         /\ UNCHANGED <<params, log, yielded>>
    ELSE LET day == CoerceDate(f.current)
             req == DatedParams(params, day, f.station)
         IN  \E response \in (IF f.kind = "daily" THEN DailyResponses(req)
                                                  ELSE HourlyResponses(req)) :
                LET r == IF f.kind = "daily" THEN DailyResult(response)
                                             ELSE ListResult(response)
                    out == YieldOrder(f.kind, r.value)
                IN  /\ params' = ParamsAfterDated(params, day, f.station)
                    /\ log' = [log EXCEPT ![g] =
                                  Append(@, [req |-> req, exc |-> r.exc, value |-> r.value])]
                    /\ IF r.exc # None
                       THEN /\ gen' = [gen EXCEPT ![g] = [f EXCEPT !.pc = "raised", !.exc = r.exc]]
                            /\ UNCHANGED yielded
                       ELSE IF IsFalsy(f.kind, r.value)
                       THEN /\ gen' = [gen EXCEPT ![g] = [f EXCEPT !.pc = "done"]]
                            /\ UNCHANGED yielded
                       ELSE /\ gen' = [gen EXCEPT ![g] =
                                          [f EXCEPT !.pc = "suspended", !.pending = Tail(out)]]
                            /\ yielded' = [yielded EXCEPT ![g] = Append(@, Head(out))]

\* a call of history_daily_range or history_hourly_range: creates generator g
GenCall(g, kind, start, end, station) ==
    /\ gen[g].pc = "none"
    /\ gen' = [gen EXCEPT ![g] = NewFrame(kind, start, end, station)]
    /\ UNCHANGED <<params, params0, log, yielded, rec, out1, out2, tpc>>

\* the first next(g): runs the body from its top to the first yield
GenStart(g) ==
    /\ gen[g].pc = "created"
    /\ LET f == EnterFrame(gen[g])
       IN  IF f.pc = "raised"
           THEN /\ gen' = [gen EXCEPT ![g] = f]
                /\ UNCHANGED <<params, log, yielded>>
           ELSE Iterate(g, f)
    /\ UNCHANGED <<params0, rec, out1, out2, tpc>>

\* a later next(g): resumes after the yield; "current -= timedelta(days=1)" ends
\* the generator by OverflowError when current is date.min
GenResume(g) ==
    /\ gen[g].pc = "suspended"
    /\ IF Len(gen[g].pending) > 0
       THEN /\ gen' = [gen EXCEPT ![g].pending = Tail(@)]
            /\ yielded' = [yielded EXCEPT ![g] = Append(@, Head(gen[g].pending))]
            /\ UNCHANGED <<params, log>>
       ELSE LET prev == PrevDay(gen[g].current)
            IN  IF IsRaise(prev)
                THEN /\ gen' = [gen EXCEPT ![g].pc = "raised", ![g].exc = prev[2]]
                     /\ UNCHANGED <<params, log, yielded>>
                ELSE Iterate(g, [gen[g] EXCEPT !.current = prev])
    /\ UNCHANGED <<params0, rec, out1, out2, tpc>>

----------------------------------------------------------------------------
(* The transform applied twice to one record *)

TransformOnce ==
    /\ tpc = "init"
    /\ LET t == Transform(rec)
       IN  /\ out1' = t.value
           /\ tpc' = IF t.exc = None THEN "once" ELSE "raised"
    /\ UNCHANGED <<params, params0, gen, log, yielded, rec, out2>>

TransformTwice ==
    /\ tpc = "once"
    /\ LET t == Transform(out1)
       IN  /\ out2' = t.value
           /\ tpc' = IF t.exc = None THEN "twice" ELSE "raised"
    /\ UNCHANGED <<params, params0, gen, log, yielded, rec, out1>>

----------------------------------------------------------------------------
(* Inputs *)

\* field names of a nested unit-system object: a measurement and reserved names
NestedKeys == {"temp", "imperial", "metric", "uk_hybrid"}

\* the values a nested field may hold
NestedVals == {IntV(72), StrV(""), StrV("ab"), MapV([dewpt |-> IntV(9)])}

\* the nested unit-system objects
NestedMaps == UNION {[K -> NestedVals] : K \in SUBSET NestedKeys}

\* the fields a record holds beside its unit-system object
PlainTops ==
    {EmptyDict, [obsTimeUtc |-> StrV("t")], [obsTimeUtc |-> StrV("t"), temp |-> IntV(1)]}

\* the records handed to _transform: at most one reserved key at the top level
RawRecords ==
    PlainTops
    \cup {DictSet(top, ReservedKeys[i], MapV(n)) :
            top \in PlainTops, i \in 1..Len(ReservedKeys), n \in NestedMaps}

\* the dates a range call may name, and None
DateChoices == Days \cup {NoneDate}

\* the two generator functions
Kinds == {"daily", "hourly"}

----------------------------------------------------------------------------
(* Specifications *)

InitClient(GenIds, Ctors) ==
    /\ \E a \in Ctors : params = Construct(a[1], a[2], a[3])
    /\ params0 = params
    /\ gen = [g \in GenIds |-> IdleFrame]
    /\ log = [g \in GenIds |-> <<>>]
    /\ yielded = [g \in GenIds |-> <<>>]
    /\ rec = EmptyDict
    /\ out1 = EmptyDict
    /\ out2 = EmptyDict
    /\ tpc = "off"

\* one range generator, every choice of its arguments
InitRange == InitClient({1}, CtorArgs)

NextRange ==
    \/ \E k \in Kinds, s \in DateChoices, e \in DateChoices, st \in Stations :
          GenCall(1, k, s, e, st)
    \/ GenStart(1)
    \/ GenResume(1)

SpecRange == InitRange /\ [][NextRange]_vars

\* the range calls made on a client that other calls share
ClientRanges == {<<LastDay, DayBack(1)>>, <<NoneDate, Today>>}

\* a client used by direct endpoint calls and range generators pulled in any
\* interleaving
Init == InitClient({1, 2}, {<<"KEY", None, "e">>})

Next ==
    \/ \E st \in Stations : current(st)
    \/ \E st \in Stations : dailysummary(st)
    \/ \E st \in Stations : observations_1day_highres(st)
    \/ \E st \in Stations : observations_7day_hourly(st)
    \/ \E d \in DateArgs, st \in Stations : history_daily(d, st)
    \/ \E d \in DateArgs, st \in Stations : history_hourly(d, st)
    \/ \E g \in {1, 2}, k \in Kinds, r \in ClientRanges, st \in Stations :
          GenCall(g, k, r[1], r[2], st)
    \/ \E g \in {1, 2} : GenStart(g)
    \/ \E g \in {1, 2} : GenResume(g)

Spec == Init /\ [][Next]_vars

\* _transform alone, on every record of RawRecords
InitTransform ==
    /\ params = Construct("KEY", "S0", "e")
    /\ params0 = params
    /\ gen = <<>>
    /\ log = <<>>
    /\ yielded = <<>>
    /\ rec \in RawRecords
    /\ out1 = EmptyDict
    /\ out2 = EmptyDict
    /\ tpc = "init"

NextTransform == TransformOnce \/ TransformTwice

SpecTransform == InitTransform /\ [][NextTransform]_vars

----------------------------------------------------------------------------
(* Properties of _transform, under SpecTransform *)

ReservedSet == {ReservedKeys[i] : i \in 1..Len(ReservedKeys)}

\* the record under test holds one reserved key at its top level
HasUnitObject == MatchedAttr(rec) # None

\* the nested mapping under that key
NestedOf(r) == r[MatchedAttr(r)][2]

\* a field of the nested mapping is named like a reserved key other than the
\* one the mapping sits under
NestedNamesOtherKey ==
    HasUnitObject /\ DOMAIN NestedOf(rec) \cap (ReservedSet \ {MatchedAttr(rec)}) # {}

\* both applications were made and returned the same record
SecondChangesNothing == tpc # "raised" /\ (tpc = "twice" => out2 = out1)

\* C8 as stated: for every record with at most one reserved key at its top level,
\* nested field names that coincide with a reserved key included, applying
\* _transform twice gives what applying it once gives.
C8_IdempotentAll == SecondChangesNothing

\* C8 amended: _transform(_transform(R)) = _transform(R) for every record whose
\* nested mapping has no field named like a reserved key other than the key it
\* sits under (a field named like its own container is deleted with it, and
\* such records are covered).
C8_IdempotentUnlessOtherKey == NestedNamesOtherKey \/ SecondChangesNothing

\* a record whose nested mapping has a measurement and a field named like its
\* own container, transformed twice
C8_Witness ==
    /\ tpc = "twice"
    /\ HasUnitObject
    /\ ~NestedNamesOtherKey
    /\ MatchedAttr(rec) \in DOMAIN NestedOf(rec)
    /\ "temp" \in DOMAIN NestedOf(rec)
    /\ MatchedAttr(rec) \notin DOMAIN out1
    /\ out1 # rec
    /\ out2 = out1

\* the reserved key is gone from the transformed record
KeyAbsent == MatchedAttr(rec) \notin DOMAIN out1

\* the fields of the nested mapping named in ks are at the top level, values unchanged
FieldsLifted(ks) == \A k \in ks : k \in DOMAIN out1 /\ out1[k] = NestedOf(rec)[k]

\* C9 as stated: for every record with exactly one reserved key, after _transform
\* the key is absent and every field of the nested mapping is at the top level
\* with the value it had.
C9_ExclusiveAll ==
    (HasUnitObject /\ tpc # "init") => KeyAbsent /\ FieldsLifted(DOMAIN NestedOf(rec))

\* C9 amended: after _transform the key is absent and every field of the nested
\* mapping, other than a field named like the key itself, is at the top level
\* with the value it had.
C9_ExclusiveButOwnName ==
    (HasUnitObject /\ tpc # "init") =>
        KeyAbsent /\ FieldsLifted(DOMAIN NestedOf(rec) \ {MatchedAttr(rec)})

C9_Witness ==
    /\ tpc = "once"
    /\ HasUnitObject
    /\ "temp" \in DOMAIN rec
    /\ "temp" \in DOMAIN NestedOf(rec)
    /\ rec["temp"] # NestedOf(rec)["temp"]
    /\ out1["temp"] = NestedOf(rec)["temp"]

----------------------------------------------------------------------------
(* Properties of the range generators, under SpecRange (one generator) *)

\* the day n days before d
RECURSIVE DaysBefore(_, _)
DaysBefore(d, n) == IF n = 0 THEN d ELSE PrevDay(DaysBefore(d, n - 1))

\* the number of days from b up to a, for a >= b
RECURSIVE Span(_, _)
Span(a, b) == IF a = b THEN 0 ELSE 1 + Span(PrevDay(a), b)

\* generator g was pulled at least once
Pulled(g) == gen[g].pc \notin {"none", "created"}

\* the fetch logged in e returned no data: None or an empty record for
\* history_daily, an empty list for history_hourly
EntryEmpty(g, e) ==
    /\ e.exc = None
    /\ \/ Len(e.value) = 0
       \/ gen[g].kind = "daily" /\ e.value[1] = EmptyDict

\* the fetch logged in e returned data
EntryData(g, e) == e.exc = None /\ ~EntryEmpty(g, e)

\* the i-th fetch of g asked for the day i - 1 days before d
FetchesWalkBackFrom(g, d) ==
    \A i \in 1..Len(log[g]) : log[g][i].req.date = Strftime(DaysBefore(d, i - 1))

\* the day a yielded record is of
DayOfRecord(r) == SubSeq(r["obsTimeUtc"][2], 1, 8)

\* r is a normalized record of the day asked for by request q
NormalizedFor(r, q) ==
    /\ DOMAIN r \cap {"imperial", "metric", "uk_hybrid"} = {}
    /\ "temp" \in DOMAIN r
    /\ DayOfRecord(r) = q.date
    /\ r["stationID"] = StrV(q.stationId)

\* the call named both dates
Explicit(g) == gen[g].argStart # NoneDate /\ gen[g].argEnd # NoneDate

\* C2: history_daily_range yields one normalized record for each day with data,
\* most recent first, and ends at the first day D without data: nothing is
\* yielded for D and no day earlier than D is fetched.
C2_DailyTermination ==
    gen[1].kind = "daily" =>
        /\ \A i \in 1..Len(log[1]) :
              EntryEmpty(1, log[1][i]) => i = Len(log[1]) /\ gen[1].pc = "done"
        /\ Len(yielded[1]) = Cardinality({i \in 1..Len(log[1]) : EntryData(1, log[1][i])})
        /\ \A i \in 1..Len(yielded[1]) :
              /\ yielded[1][i] = log[1][i].value[1]
              /\ NormalizedFor(yielded[1][i], log[1][i].req)
        /\ Pulled(1) /\ gen[1].exc # "TypeError" => FetchesWalkBackFrom(1, gen[1].start)

\* start=2024-01-03, end=2024-01-01, data for 01-03 and 01-02, none for 01-01
C2_Witness ==
    /\ gen[1].kind = "daily"
    /\ gen[1].argStart = DateObj(2024, 1, 3)
    /\ gen[1].argEnd = DateObj(2024, 1, 1)
    /\ gen[1].pc = "done"
    /\ Len(log[1]) = 3
    /\ EntryEmpty(1, log[1][3])
    /\ log[1][3].req.date = "20240101"
    /\ Len(yielded[1]) = 2
    /\ DayOfRecord(yielded[1][1]) = "20240103"
    /\ DayOfRecord(yielded[1][2]) = "20240102"

\* the call of generator 1 named start >= end and every fetch so far returned data
DescendingWithData ==
    /\ Explicit(1)
    /\ DateGe(gen[1].argStart, gen[1].argEnd)
    /\ \A i \in 1..Len(log[1]) : EntryData(1, log[1][i])

\* C3: with explicit start >= end and data on every day of [end, start], either
\* generator fetches start, start-1, ..., end, each once and in that order, yields
\* data of the end day, fetches no day before end and ends after
\* (start - end) + 1 fetches.
C3_EndInclusive ==
    (DescendingWithData /\ Pulled(1)) =>
        /\ gen[1].pc # "raised"
        /\ Len(log[1]) >= 1
        /\ Len(log[1]) <= Span(gen[1].argStart, gen[1].argEnd) + 1
        /\ FetchesWalkBackFrom(1, gen[1].argStart)
        /\ gen[1].pc = "done" =>
              /\ Len(log[1]) = Span(gen[1].argStart, gen[1].argEnd) + 1
              /\ \E j \in 1..Len(yielded[1]) :
                    DayOfRecord(yielded[1][j]) = Strftime(gen[1].argEnd)

C3_Witness ==
    /\ DescendingWithData
    /\ gen[1].kind = "hourly"
    /\ gen[1].pc = "done"
    /\ Span(gen[1].argStart, gen[1].argEnd) = 2
    /\ Len(log[1]) = 3

\* C4: with explicit start < end the arguments are swapped: the first day fetched
\* is the given end, the traversal walks back from there and never goes below
\* the given start.
C4_RangeSwap ==
    (Explicit(1) /\ DateLt(gen[1].argStart, gen[1].argEnd) /\ Pulled(1)) =>
        /\ gen[1].start = gen[1].argEnd
        /\ gen[1].end = gen[1].argStart
        /\ Len(log[1]) >= 1
        /\ Len(log[1]) <= Span(gen[1].argEnd, gen[1].argStart) + 1
        /\ FetchesWalkBackFrom(1, gen[1].argEnd)

C4_Witness ==
    /\ Explicit(1)
    /\ DateLt(gen[1].argStart, gen[1].argEnd)
    /\ gen[1].pc = "done"
    /\ Len(log[1]) = Span(gen[1].argEnd, gen[1].argStart) + 1
    /\ Len(log[1]) >= 3
    /\ EntryData(1, log[1][Len(log[1])])

\* C5 as stated: called with an explicit start and end None, a generator raises
\* no error and begins fetching at start.
C5_NoEndNoError ==
    (gen[1].argStart # NoneDate /\ gen[1].argEnd = NoneDate /\ Pulled(1)) =>
        /\ gen[1].exc # "TypeError"
        /\ Len(log[1]) >= 1
        /\ log[1][1].req.date = Strftime(gen[1].argStart)

\* C6 as stated: called with start omitted and an end after today, a generator
\* swaps the two, so the first day fetched is end.
C6_DefaultStartSwap ==
    (gen[1].argStart = NoneDate /\ gen[1].argEnd # NoneDate
        /\ DateLt(Today, gen[1].argEnd) /\ Pulled(1)) =>
        /\ Len(log[1]) >= 1
        /\ log[1][1].req.date = Strftime(gen[1].argEnd)

\* the number of records the first i fetches of g returned
RECURSIVE Fetched(_, _)
Fetched(g, i) == IF i = 0 THEN 0 ELSE Fetched(g, i - 1) + Len(log[g][i].value)

\* what g has yielded so far followed by what it holds of the batch in progress
Emitted(g) == yielded[g] \o gen[g].pending

\* C7: history_hourly_range yields every record of each fetched list exactly once,
\* last element first, all records of a day before any of the next day, and
\* steps the date back only after the whole list was yielded.
C7_HourlyOrder ==
    gen[1].kind = "hourly" =>
        /\ Len(Emitted(1)) = Fetched(1, Len(log[1]))
        /\ \A i \in 1..Len(log[1]) : \A j \in 1..Len(log[1][i].value) :
              Emitted(1)[Fetched(1, i - 1) + j]
                  = log[1][i].value[Len(log[1][i].value) + 1 - j]
        /\ gen[1].pc = "suspended" =>
              /\ log[1][Len(log[1])].req.date = Strftime(gen[1].current)
              /\ Len(yielded[1]) > Fetched(1, Len(log[1]) - 1)

C7_Witness ==
    /\ gen[1].kind = "hourly"
    /\ Len(log[1]) = 2
    /\ Len(log[1][1].value) >= 2
    /\ Len(log[1][2].value) >= 2
    /\ Len(gen[1].pending) = 0
    /\ yielded[1][1] = log[1][1].value[Len(log[1][1].value)]
    /\ yielded[1][1] # log[1][1].value[1]

----------------------------------------------------------------------------
(* Properties of the shared client, under Spec (two generators, direct calls) *)

\* C1 as stated: self._params keeps the keys and values it had when the
\* constructor returned, whatever calls are made.
C1_ParamsReadOnly == params = params0

\* the day a traversal of g starts at when g is the client's only consumer
SoloStart(g) ==
    IF gen[g].argStart = NoneDate THEN Today
    ELSE IF gen[g].argEnd # NoneDate /\ DateLt(gen[g].argStart, gen[g].argEnd)
    THEN gen[g].argEnd
    ELSE gen[g].argStart

\* the parameters of the i-th request of g when g is the client's only consumer:
\* the constructor's mapping, g's own station if it gave one, g's own i-th day
SoloRequest(g, i) ==
    [apiKey           |-> params0.apiKey,
     stationId        |-> IF gen[g].station # None THEN gen[g].station
                                                   ELSE params0.stationId,
     units            |-> params0.units,
     format           |-> params0.format,
     numericPrecision |-> params0.numericPrecision,
     date             |-> Strftime(DaysBefore(SoloStart(g), i - 1))]

\* the number of records the first i fetches of g gave it to yield
RECURSIVE Yieldable(_, _)
Yieldable(g, i) ==
    IF i = 0 THEN 0
    ELSE Yieldable(g, i - 1)
         + (IF EntryData(g, log[g][i]) THEN Len(log[g][i].value) ELSE 0)

\* C10: however the pulls of two generators and direct history calls interleave,
\* each generator sends the requests it sends alone (its own station, its own
\* days from its own start) and yields the records of its own fetches, in its
\* own order.
C10_Independent ==
    \A g \in DOMAIN gen :
        /\ \A i \in 1..Len(log[g]) :
              /\ log[g][i].req = SoloRequest(g, i)
              /\ EntryData(g, log[g][i]) =>
                    \A j \in 1..Len(log[g][i].value) :
                        /\ NormalizedFor(log[g][i].value[j], SoloRequest(g, i))
                        /\ Emitted(g)[Yieldable(g, i - 1) + j]
                              = log[g][i].value[Len(log[g][i].value) + 1 - j]
        /\ Len(Emitted(g)) = Yieldable(g, Len(log[g]))

C10_Witness ==
    /\ gen[1].kind = "daily" /\ gen[1].station = None
    /\ gen[2].kind = "hourly" /\ gen[2].station = "S1"
    /\ Len(log[1]) = 2 /\ Len(yielded[1]) = 2
    /\ Len(log[2]) = 2 /\ Len(yielded[2]) = 3
    /\ "date" \in DOMAIN params
    /\ params.date = "20231231"

====
